---- MODULE Spec2Model ----
(***************************************************************************)
(* A model of pangeo_forge/recipes/base.py: BaseRecipe.to_pipelines, the   *)
(* translation of a recipe into a rechunker ParallelPipelines value, and   *)
(* of the execution of that value by an executor that keeps the ordering   *)
(* contract of the Stage / MultiStagePipeline types.                       *)
(***************************************************************************)
EXTENDS Naturals, Sequences, FiniteSets

\* ------------------------------------------------------------- bounds

\* Longest key sequence an enumeration (iter_inputs, iter_chunks) returns.
MaxLen == 2
\* Retries an executor grants, per run, to failed cache_input / store_chunk
\* invocations.
MaxRetries == 1

\* The opaque work keys. Two keys give duplicates (<<a, a>>) and both orders.
Keys == {"a", "b"}

\* ------------------------------------------------------- the recipe

\* Sequences over S of length at most n.
SeqUpTo(S, n) == UNION {[1..k -> S] : k \in 0..n}

\* What a call of iter_inputs() / iter_chunks() hands to list(): an iterable
\* that yields `items`, or one whose call or iteration raises.
Iterables ==
    {[raises |-> FALSE, items |-> s] : s \in SeqUpTo(Keys, MaxLen)}
        \cup {[raises |-> TRUE, items |-> <<>>]}

\* The cache_inputs attribute: absent from the object, or set to a bool.
FlagValues == {"unset", "False", "True"}

\* A recipe instance, as far as to_pipelines reads it.
Recipes ==
    [cache_inputs : FlagValues, iter_inputs : Iterables, iter_chunks : Iterables]

\* The four work functions a Stage can be bound to.
WorkFunctions == {"cache_input", "prepare_target", "store_chunk", "finalize_target"}

\* ----------------------------------------------------- rechunker types

\* Stage's second field when the stage is built from the function alone.
None == [is_none |-> TRUE, items |-> <<>>]

\* The items of s, each kept at its first occurrence only.
RECURSIVE Dedup(_)
Dedup(s) ==
    IF s = <<>> THEN <<>>
    ELSE LET front == Dedup(SubSeq(s, 1, Len(s) - 1))
             x == s[Len(s)]
         IN  IF \E n \in DOMAIN front : front[n] = x THEN front ELSE Append(front, x)

\* Variant: `list(dict.fromkeys(...))`, duplicates dropped.
list_dedup(iterable) == [is_none |-> FALSE, items |-> Dedup(iterable.items)]

\* Variant: `list(...) or None`, an empty list collapsing to no list.
list_or_none(iterable) ==
    IF iterable.items = <<>> THEN None ELSE [is_none |-> FALSE, items |-> iterable.items]

\* list(iterable): a new list holding the iterable's items, in order.
list(iterable) == [is_none |-> FALSE, items |-> iterable.items]

\* Stage(function, mappable): a function and an optional list of arguments.
Stage(function, mappable) == [function |-> function, mappable |-> mappable]

\* ------------------------------------------------------------- state

\* The value of `origin` while no pipeline has been handed over.
NoRecipe ==
    [cache_inputs |-> "unset",
     iter_inputs  |-> [raises |-> FALSE, items |-> <<>>],
     iter_chunks  |-> [raises |-> FALSE, items |-> <<>>]]

\* A slot that holds no call outcome.
NoCall == [raised |-> FALSE, value |-> <<>>, trace |-> <<>>]

VARIABLES
    recipe,       \* the recipe instance
    last,       \* outcome of the latest to_pipelines call on `recipe` as it is now
    prev,       \* outcome of the call before it, on the same `recipe`
    earlier,    \* how the latest call made before `recipe` last changed ended
    run,        \* the executor: "none", "active", "done" or "failed"
    plan,       \* the pipeline the executor was handed
    origin,     \* the recipe as it was when that pipeline was translated
    st,         \* st[s][i]: the state of invocation i of stage s of `plan`
    retries,    \* retries granted in this run
    invoked,    \* invoked[f]: times work function f has been entered
    failed,     \* the work functions that have raised in this run
    cache,      \* keys cache_input has written to the cache
    target      \* the target: prepared, chunks stored, finalized

tvars == <<recipe, last, prev, earlier>>

rvars == <<run, plan, origin, st, retries, failed>>

evars == <<invoked, cache, target>>

vars ==
    <<recipe, last, prev, earlier, run, plan, origin, st, retries, invoked, failed,
      cache, target>>

Init ==
    /\ recipe \in Recipes
    /\ last = NoCall
    /\ prev = NoCall
    /\ earlier = "none"
    /\ run = "none"
    /\ plan = <<>>
    /\ origin = NoRecipe
    /\ st = <<>>
    /\ retries = 0
    /\ invoked = [f \in WorkFunctions |-> 0]
    /\ failed = {}
    /\ cache = {}
    /\ target = [prepared |-> FALSE, chunks |-> {}, finalized |-> FALSE]

\* ------------------------------------------------------- to_pipelines

\* Variant: the default given as True.
getattr_default_broken == "True"

\* The default to_pipelines hands to getattr.
getattr_default == "False"

\* getattr(self, "cache_inputs", default).
getattr(self, default) ==
    IF self.cache_inputs = "unset" THEN default ELSE self.cache_inputs

\* Variant: any set attribute counts as true.
truthy_broken(value) == value # "unset"

\* The truth value `if` gives the attribute.
truthy(value) == value = "True"

\* Variant: the list of stages kept from the call before.
Frame_shared ==
    [pipeline |-> IF last.value = <<>> THEN <<>> ELSE last.value[1],
     raised |-> FALSE, trace |-> <<>>]

\* The frame of a to_pipelines call: the local `pipeline`, whether an
\* exception is propagating, and the recipe members touched so far ("get" a
\* property, "call" a method).
\* Line 81: each call starts from a new, empty list.
Frame == [pipeline |-> <<>>, raised |-> FALSE, trace |-> <<>>]

Touch(c, events) == [c EXCEPT !.trace = c.trace \o events]

Raise(c) == [c EXCEPT !.raised = TRUE]

Push(c, stage) == [c EXCEPT !.pipeline = Append(c.pipeline, stage)]

\* Variant: the caching stage mapped over iter_chunks().
append_cache_stage_over_chunks(self, c) ==
    IF c.raised THEN c
    ELSE LET c0 == Touch(c, <<"getattr cache_inputs">>)
         IN  IF ~truthy(getattr(self, getattr_default)) THEN c0
             ELSE LET c1 == Touch(c0, <<"get cache_input", "call iter_chunks">>)
                  IN  IF self.iter_chunks.raises THEN Raise(c1)
                      ELSE Push(c1, Stage("cache_input", list(self.iter_chunks)))

\* Lines 82-83: the optional caching stage. The arguments of Stage are
\* evaluated left to right: the property, then the enumeration.
append_cache_stage(self, c) ==
    IF c.raised THEN c
    ELSE LET c0 == Touch(c, <<"getattr cache_inputs">>)
         IN  IF ~truthy(getattr(self, getattr_default)) THEN c0
             ELSE LET c1 == Touch(c0, <<"get cache_input", "call iter_inputs">>)
                  IN  IF self.iter_inputs.raises THEN Raise(c1)
                      ELSE Push(c1, Stage("cache_input", list(self.iter_inputs)))

\* Variant: the target prepared while the plan is built.
append_prepare_stage_eager(self, c) ==
    IF c.raised THEN c
    ELSE Push(Touch(c, <<"get prepare_target", "call prepare_target">>),
              Stage("prepare_target", None))

\* Line 84.
append_prepare_stage(self, c) ==
    IF c.raised THEN c
    ELSE Push(Touch(c, <<"get prepare_target">>), Stage("prepare_target", None))

\* Variant: a failing iter_chunks() swallowed, the stage left out.
append_store_stage_lenient(self, c) ==
    IF c.raised THEN c
    ELSE LET c1 == Touch(c, <<"get store_chunk", "call iter_chunks">>)
         IN  IF self.iter_chunks.raises THEN c1
             ELSE Push(c1, Stage("store_chunk", list(self.iter_chunks)))

\* Line 85.
append_store_stage(self, c) ==
    IF c.raised THEN c
    ELSE LET c1 == Touch(c, <<"get store_chunk", "call iter_chunks">>)
         IN  IF self.iter_chunks.raises THEN Raise(c1)
             ELSE Push(c1, Stage("store_chunk", list(self.iter_chunks)))

\* Line 86.
append_finalize_stage(self, c) ==
    IF c.raised THEN c
    ELSE Push(Touch(c, <<"get finalize_target">>), Stage("finalize_target", None))

\* Lines 87-89: the outcome of the call. An exception leaves no value.
wrap(c) ==
    [raised |-> c.raised,
     value  |-> IF c.raised THEN <<>> ELSE <<c.pipeline>>,
     trace  |-> c.trace]

\* Variant: prepare_target appended before the caching stage.
to_pipelines_prepare_first(self) ==
    wrap(append_finalize_stage(self,
         append_store_stage(self,
         append_cache_stage(self,
         append_prepare_stage(self, Frame)))))

\* Variant: store_chunk appended before prepare_target.
to_pipelines_store_first(self) ==
    wrap(append_finalize_stage(self,
         append_prepare_stage(self,
         append_store_stage(self,
         append_cache_stage(self, Frame)))))

\* Variant: finalize_target appended before store_chunk.
to_pipelines_finalize_early(self) ==
    wrap(append_store_stage(self,
         append_finalize_stage(self,
         append_prepare_stage(self,
         append_cache_stage(self, Frame)))))

\* BaseRecipe.to_pipelines.
to_pipelines(self) ==
    wrap(append_finalize_stage(self,
         append_store_stage(self,
         append_prepare_stage(self,
         append_cache_stage(self, Frame)))))

\* ------------------------------------------------- manual execution

\* One call of a work function: its name and its key ("-" for none).
Call(f, k) == [function |-> f, key |-> k]

\* The calls `for key in keys: f(key)` makes, in order.
ForEach(f, keys) == [n \in DOMAIN keys |-> Call(f, keys[n])]

\* Variant: the target prepared before the inputs are cached, as the numbers
\* of the header's steps (3 before 4) would have it.
ManualExecution_by_step_number(r) ==
    <<Call("prepare_target", "-")>>
        \o ForEach("cache_input", r.iter_inputs.items)
        \o ForEach("store_chunk", r.iter_chunks.items)
        \o <<Call("finalize_target", "-")>>

\* Lines 11-16, the manual execution of a recipe r: the calls it makes.
ManualExecution(r) ==
    ForEach("cache_input", r.iter_inputs.items)
        \o <<Call("prepare_target", "-")>>
        \o ForEach("store_chunk", r.iter_chunks.items)
        \o <<Call("finalize_target", "-")>>

\* --------------------------------------------------- caller and translator

Outcome(o) == IF o = NoCall THEN "none" ELSE IF o.raised THEN "raised" ELSE "returned"

\* Times to_pipelines itself called work function f: the "call f" entries of
\* its trace.
CallsOf(trace, f) ==
    Cardinality({n \in DOMAIN trace : trace[n] = "call " \o f})

\* A caller calls recipe.to_pipelines().
ToPipelines ==
    /\ last' = to_pipelines(recipe)
    /\ prev' = last
    /\ invoked' = [f \in WorkFunctions |-> invoked[f] + CallsOf(last'.trace, f)]
    /\ UNCHANGED <<recipe, earlier, rvars, cache, target>>

\* The caller changes the recipe: the flag is set, reset or deleted, or an
\* enumeration starts to return something else (the target appeared, a source
\* went away). Outcomes of calls on the recipe as it was are kept only as
\* `earlier`.
Mutate ==
    /\ \E r \in Recipes :
          /\ r # recipe
          /\ \/ r.iter_inputs = recipe.iter_inputs /\ r.iter_chunks = recipe.iter_chunks
             \/ r.cache_inputs = recipe.cache_inputs /\ r.iter_chunks = recipe.iter_chunks
             \/ r.cache_inputs = recipe.cache_inputs /\ r.iter_inputs = recipe.iter_inputs
          /\ recipe' = r
    /\ earlier' = IF last = NoCall THEN earlier ELSE Outcome(last)
    /\ last' = NoCall
    /\ prev' = NoCall
    /\ UNCHANGED <<rvars, evars>>

\* ---------------------------------------------------------- the executor

\* Invocations a stage asks for: one per item of its list, one without a list.
Tasks(stage) ==
    IF stage.mappable.is_none THEN 1 ELSE Len(stage.mappable.items)

\* Variant: a stage is complete once an invocation of it has returned, so one
\* with nothing to invoke never is.
StageDone_nonempty(s) == st[s] # <<>> /\ \A i \in DOMAIN st[s] : st[s][i] = "done"

\* Stage s has run to completion: each of its invocations has returned.
StageDone(s) == \A i \in DOMAIN st[s] : st[s][i] = "done"

\* Variant: a stage starts once the stages before it have been submitted.
Ready_submitted(s) == \A t \in 1..(s - 1) : \A i \in DOMAIN st[t] : st[t][i] # "pending"

\* Stage s may start: every invocation of every stage before it has returned.
Ready(s) == \A t \in 1..(s - 1) : StageDone(t)

\* Variant: every failure may be retried.
Retryable_any == WorkFunctions

\* Failures the executor may answer by running the invocation again: those of
\* single-key invocations. A prepare_target or finalize_target failure is fatal.
Retryable == {"cache_input", "store_chunk"}

\* The executor is handed one pipeline of the returned collection.
Execute ==
    /\ run = "none"
    /\ Outcome(last) = "returned"
    /\ \E p \in DOMAIN last.value :
          /\ plan' = last.value[p]
          /\ st' = [s \in DOMAIN last.value[p] |->
                       [i \in 1..Tasks(last.value[p][s]) |-> "pending"]]
    /\ origin' = recipe
    /\ run' = "active"
    /\ UNCHANGED <<tvars, retries, failed, evars>>

\* Invocation i of stage s starts.
Invoke(s, i) ==
    /\ run = "active"
    /\ st[s][i] = "pending"
    /\ Ready(s)
    /\ st' = [st EXCEPT ![s][i] = "running"]
    /\ invoked' = [invoked EXCEPT ![plan[s].function] = @ + 1]
    /\ UNCHANGED <<tvars, run, plan, origin, retries, failed, cache, target>>

\* Variant: the stage holds the enumeration itself, read when the stage runs.
KeysOf_lazy(s) ==
    IF plan[s].function = "cache_input" THEN recipe.iter_inputs.items
    ELSE IF plan[s].function = "store_chunk" THEN recipe.iter_chunks.items
    ELSE <<>>

\* The keys stage s is run over: the list built when the stage was made.
KeysOf(s) == plan[s].mappable.items

\* What the work function of stage s leaves behind when it returns.
Effect(s, i) ==
    LET f == plan[s].function
        k == KeysOf(s)[i]
    IN  /\ cache' = IF f = "cache_input" THEN cache \cup {k} ELSE cache
        /\ target' =
             IF f = "prepare_target" THEN [target EXCEPT !.prepared = TRUE]
             ELSE IF f = "store_chunk" THEN [target EXCEPT !.chunks = @ \cup {k}]
             ELSE IF f = "finalize_target" THEN [target EXCEPT !.finalized = TRUE]
             ELSE target

\* Invocation i of stage s returns.
Returns(s, i) ==
    /\ run \in {"active", "failed"}
    /\ st[s][i] = "running"
    /\ st' = [st EXCEPT ![s][i] = "done"]
    /\ Effect(s, i)
    /\ UNCHANGED <<tvars, run, plan, origin, retries, failed, invoked>>

\* Invocation i of stage s raises.
Raises(s, i) ==
    /\ run \in {"active", "failed"}
    /\ st[s][i] = "running"
    /\ st' = [st EXCEPT ![s][i] = "failed"]
    /\ failed' = failed \cup {plan[s].function}
    /\ UNCHANGED <<tvars, run, plan, origin, retries, evars>>

\* The executor schedules a failed invocation again.
Retry(s, i) ==
    /\ run = "active"
    /\ st[s][i] = "failed"
    /\ plan[s].function \in Retryable
    /\ retries < MaxRetries
    /\ st' = [st EXCEPT ![s][i] = "pending"]
    /\ retries' = retries + 1
    /\ UNCHANGED <<tvars, run, plan, origin, failed, evars>>

\* The executor gives the run up over a failed invocation.
Abort ==
    /\ run = "active"
    /\ \E s \in DOMAIN st : \E i \in DOMAIN st[s] : st[s][i] = "failed"
    /\ run' = "failed"
    /\ UNCHANGED <<tvars, plan, origin, st, retries, failed, evars>>

\* Every stage has run to completion.
Complete ==
    /\ run = "active"
    /\ \A s \in DOMAIN st : StageDone(s)
    /\ run' = "done"
    /\ UNCHANGED <<tvars, plan, origin, st, retries, failed, evars>>

InvokeSome == \E s \in DOMAIN st : \E i \in DOMAIN st[s] : Invoke(s, i)

ReturnsSome == \E s \in DOMAIN st : \E i \in DOMAIN st[s] : Returns(s, i)

RaisesSome == \E s \in DOMAIN st : \E i \in DOMAIN st[s] : Raises(s, i)

RetrySome == \E s \in DOMAIN st : \E i \in DOMAIN st[s] : Retry(s, i)

\* The recipe changes while a run of a pipeline translated from it is under
\* way, or waits to start.
MutateLive ==
    /\ run # "none"
    /\ recipe = origin
    /\ Mutate

\* ------------------------------------------------------ specifications

\* The translator and its caller.
Next == ToPipelines \/ Mutate

Spec == Init /\ [][Next]_vars

\* The translator, then an executor running what it returned.
NextRun ==
    \/ ToPipelines
    \/ Execute
    \/ InvokeSome
    \/ ReturnsSome
    \/ RaisesSome
    \/ RetrySome
    \/ Abort
    \/ Complete

SpecRun == Init /\ [][NextRun]_vars

\* A run in which every invocation returns.
NextOk ==
    \/ ToPipelines
    \/ Execute
    \/ InvokeSome
    \/ ReturnsSome
    \/ Complete

\* A fair executor: an invocation that may start does start, one that runs
\* does return, and a run whose stages are complete is reported complete.
SpecFair ==
    /\ Init
    /\ [][NextOk]_vars
    /\ WF_vars(InvokeSome)
    /\ WF_vars(ReturnsSome)
    /\ WF_vars(Complete)

\* The translation that precedes a run.
Translate ==
    /\ run = "none"
    /\ ToPipelines

\* A translation, then a run of what it returned in which every invocation
\* returns, with the recipe changing under the run.
NextDyn ==
    \/ Translate
    \/ Execute
    \/ InvokeSome
    \/ ReturnsSome
    \/ Complete
    \/ MutateLive

SpecDyn == Init /\ [][NextDyn]_vars

\* ------------------------------------------------------- claim helpers

\* The stages of the running plan bound to work function f.
StagesOf(f) == {s \in DOMAIN plan : plan[s].function = f}

\* Some invocation of stage s has begun.
Started(s) == \E i \in DOMAIN st[s] : st[s][i] # "pending"

\* The run is over: every stage completed, or the executor gave it up.
RunOver == run \in {"done", "failed"}

\* The positions of pipeline pl bound to work function f.
Positions(pl, f) == {n \in DOMAIN pl : pl[n].function = f}

Mentions(trace, event) == \E n \in DOMAIN trace : trace[n] = event

\* ------------------------------------------------------------- claims

FinalizeAfterStores ==
    run # "none" =>
        \A s \in StagesOf("finalize_target") :
            Started(s) =>
                /\ \A t \in StagesOf("store_chunk") : StageDone(t)
                /\ \A t \in StagesOf("store_chunk") :
                      \A i \in DOMAIN plan[t].mappable.items :
                          plan[t].mappable.items[i] \in target.chunks

C3_NoCachingPipeline ==
    (Outcome(last) # "none" /\ recipe.cache_inputs = "False") =>
        /\ ~recipe.iter_chunks.raises => Outcome(last) = "returned"
        /\ Outcome(last) = "returned" =>
              last.value =
                  << << [function |-> "prepare_target", mappable |-> None],
                        [function |-> "store_chunk",
                         mappable |-> [is_none |-> FALSE,
                                       items |-> recipe.iter_chunks.items]],
                        [function |-> "finalize_target", mappable |-> None] >> >>
        /\ ~Mentions(last.trace, "call iter_inputs")
        /\ ~Mentions(last.trace, "get cache_input")
        /\ ~Mentions(last.trace, "call cache_input")
        /\ invoked["cache_input"] = 0

\* C3 witness: a recipe with the flag False and two chunk keys was translated,
\* although its iter_inputs would have failed.
C3_Witness ==
    /\ Outcome(last) = "returned"
    /\ recipe.cache_inputs = "False"
    /\ recipe.iter_inputs.raises
    /\ recipe.iter_chunks.items = <<"a", "b">>

\* C4: for a recipe whose cache_inputs is True, what to_pipelines returns is
\* one pipeline of exactly four stages: cache_input over the list of
\* iter_inputs() first, then prepare_target, store_chunk over the list of
\* iter_chunks(), and finalize_target. It returns whenever neither
\* enumeration fails.
C4_CachingPipeline ==
    (Outcome(last) # "none" /\ recipe.cache_inputs = "True") =>
        /\ (~recipe.iter_inputs.raises /\ ~recipe.iter_chunks.raises)
              => Outcome(last) = "returned"
        /\ Outcome(last) = "returned" =>
              last.value =
                  << << [function |-> "cache_input",
                         mappable |-> [is_none |-> FALSE,
                                       items |-> recipe.iter_inputs.items]],
                        [function |-> "prepare_target", mappable |-> None],
                        [function |-> "store_chunk",
                         mappable |-> [is_none |-> FALSE,
                                       items |-> recipe.iter_chunks.items]],
                        [function |-> "finalize_target", mappable |-> None] >> >>

\* C4 witness: the flag is True, iter_inputs() = [a, b], iter_chunks() = [a].
C4_Witness ==
    /\ Outcome(last) = "returned"
    /\ recipe.cache_inputs = "True"
    /\ recipe.iter_inputs.items = <<"a", "b">>
    /\ recipe.iter_chunks.items = <<"a">>

\* C5: whatever the flag, in every pipeline to_pipelines returns the
\* finalize_target stage is the last stage and the only one bound to
\* finalize_target, and the prepare_target stage stands strictly before the
\* store_chunk stage.
C5_StageOrder ==
    Outcome(last) = "returned" =>
        /\ last.value # <<>>
        /\ \A p \in DOMAIN last.value :
              LET pl == last.value[p]
              IN  /\ Positions(pl, "finalize_target") = {Len(pl)}
                  /\ Positions(pl, "prepare_target") # {}
                  /\ Positions(pl, "store_chunk") # {}
                  /\ \A m \in Positions(pl, "prepare_target") :
                        \A n \in Positions(pl, "store_chunk") : m < n

\* C5 witness: a pipeline was returned with the flag True, and one had been
\* returned for the recipe as it was before it last changed.
C5_Witness ==
    /\ Outcome(last) = "returned"
    /\ recipe.cache_inputs = "True"
    /\ earlier = "returned"

\* C6: once prepare_target has failed in a run, the run is fatal: it never
\* completes, the executor can only give it up, and no store_chunk and no
\* finalize_target invocation has started or can start.
C6_PrepareFailureIsFatal ==
    "prepare_target" \in failed =>
        /\ run \in {"active", "failed"}
        /\ invoked["store_chunk"] = 0
        /\ invoked["finalize_target"] = 0
        /\ \A s \in StagesOf("store_chunk") \cup StagesOf("finalize_target") :
              ~Started(s)
        /\ ~ENABLED InvokeSome
        /\ ~ENABLED RetrySome
        /\ ~ENABLED Complete
        /\ run = "active" => ENABLED Abort

\* C6 witness: prepare_target failed in a run over two chunk keys, and the
\* executor gave the run up.
C6_Witness ==
    /\ "prepare_target" \in failed
    /\ run = "failed"
    /\ \E t \in StagesOf("store_chunk") : Len(st[t]) = 2

\* C7: when iter_chunks() fails as to_pipelines calls it, also on a call
\* that follows a successful one, the call raises and hands its caller no
\* plan at all, neither a partial nor an inconsistent pipeline.
C7_EnumerationFailureSurfaces ==
    (Outcome(last) # "none" /\ recipe.iter_chunks.raises) =>
        /\ Outcome(last) = "raised"
        /\ last.value = <<>>

\* C7 witness: to_pipelines returned a plan, iter_chunks began to fail, and
\* the next call raised after the caching stage had been built.
C7_Witness ==
    /\ earlier = "returned"
    /\ Outcome(last) = "raised"
    /\ recipe.iter_chunks.raises
    /\ recipe.cache_inputs = "True"
    /\ ~recipe.iter_inputs.raises

\* Two returned collections have the same stage structure: as many pipelines,
\* as many stages in each, the same function and the same key list (or the
\* same absence of one) at each position.
SameStructure(x, y) ==
    /\ Len(x) = Len(y)
    /\ \A p \in DOMAIN x :
          /\ Len(x[p]) = Len(y[p])
          /\ \A n \in DOMAIN x[p] :
                /\ x[p][n].function = y[p][n].function
                /\ x[p][n].mappable.is_none = y[p][n].mappable.is_none
                /\ x[p][n].mappable.items = y[p][n].mappable.items

\* C8: two calls of to_pipelines on a recipe whose flag and enumerations are
\* the same at both calls return pipelines of identical stage structure, and
\* the second call ends as the first did.
C8_Idempotent ==
    (Outcome(prev) # "none" /\ Outcome(last) # "none") =>
        /\ Outcome(prev) = Outcome(last)
        /\ Outcome(last) = "returned" => SameStructure(prev.value, last.value)

\* C8 witness: two calls on an unchanged caching recipe both returned.
C8_Witness ==
    /\ Outcome(prev) = "returned"
    /\ Outcome(last) = "returned"
    /\ recipe.cache_inputs = "True"
    /\ recipe.iter_inputs.items = <<"a", "b">>
    /\ recipe.iter_chunks.items = <<"b", "a">>

\* What to_pipelines returns for an empty iter_chunks(): three stages (flag
\* not True) or four (flag True), the store_chunk stage holding a list that
\* is empty, not a stage without a list; and no run of it invokes store_chunk.
EmptyChunksPlan ==
    /\ (Outcome(last) = "returned" /\ recipe.iter_chunks.items = <<>>) =>
          /\ Len(last.value) = 1
          /\ Len(last.value[1]) = IF recipe.cache_inputs = "True" THEN 4 ELSE 3
          /\ \E n \in DOMAIN last.value[1] :
                last.value[1][n] =
                    [function |-> "store_chunk",
                     mappable |-> [is_none |-> FALSE, items |-> <<>>]]
    /\ (run # "none" /\ recipe.iter_chunks.items = <<>>) =>
          /\ Len(plan) = IF recipe.cache_inputs = "True" THEN 4 ELSE 3
          /\ \A t \in StagesOf("store_chunk") : st[t] = <<>>
          /\ invoked["store_chunk"] = 0

C10_UnsetFlagIsFalse ==
    (Outcome(last) # "none" /\ recipe.cache_inputs = "unset") =>
        LET asFalse == to_pipelines([recipe EXCEPT !.cache_inputs = "False"])
        IN  /\ last.raised = asFalse.raised
            /\ last.value = asFalse.value
            /\ last.raised <=> recipe.iter_chunks.raises
            /\ Outcome(last) = "returned" =>
                  /\ Len(last.value) = 1
                  /\ Len(last.value[1]) = 3
                  /\ Positions(last.value[1], "cache_input") = {}

\* C10 witness: a recipe without the attribute, whose iter_inputs would have
\* failed, was translated.
C10_Witness ==
    /\ Outcome(last) = "returned"
    /\ recipe.cache_inputs = "unset"
    /\ recipe.iter_inputs.raises
    /\ recipe.iter_chunks.items = <<"a", "b">>

\* The invocations of work function f that have begun and were not handed
\* back to the executor for a retry: the positions of its stages not pending.
NonPending(f) ==
    Cardinality({q \in UNION {{<<s, i>> : i \in DOMAIN st[s]} : s \in StagesOf(f)} :
                    st[q[1]][q[2]] # "pending"})

\* The list a pipeline's stage bound to f holds is exactly `items`.
HoldsList(pl, f, items) ==
    \A n \in Positions(pl, f) :
        pl[n].mappable = [is_none |-> FALSE, items |-> items]

\* The key list of each mapped stage is the enumeration's sequence, element
\* for element: as long, in the same order, duplicates kept; and a run has one
\* invocation slot per list position.
KeyListsKept ==
    /\ Outcome(last) = "returned" =>
          \A p \in DOMAIN last.value :
              /\ HoldsList(last.value[p], "cache_input", recipe.iter_inputs.items)
              /\ HoldsList(last.value[p], "store_chunk", recipe.iter_chunks.items)
    /\ run # "none" =>
          /\ HoldsList(plan, "cache_input", recipe.iter_inputs.items)
          /\ HoldsList(plan, "store_chunk", recipe.iter_chunks.items)
          /\ \A s \in StagesOf("cache_input") \cup StagesOf("store_chunk") :
                DOMAIN st[s] = DOMAIN plan[s].mappable.items

\* The list positions a completed run has served for f: all of them.
ServedAll(f, items) ==
    StagesOf(f) # {} => NonPending(f) = Len(items)

Range(s) == {s[n] : n \in DOMAIN s}

\* C12: the key lists of a plan are fixed when to_pipelines builds it: a call
\* consumes each enumeration at most once, and whatever iter_inputs() and
\* iter_chunks() would return later, each mapped stage of a run is run over
\* the sequence the enumeration gave at translation, position for position,
\* and only those keys reach the cache and the target.
C12_KeysFixedAtTranslation ==
    /\ Outcome(last) # "none" =>
          /\ CallsOf(last.trace, "iter_inputs") <= 1
          /\ CallsOf(last.trace, "iter_chunks") <= 1
    /\ run # "none" =>
          /\ \A s \in StagesOf("cache_input") :
                /\ KeysOf(s) = origin.iter_inputs.items
                /\ DOMAIN st[s] = DOMAIN origin.iter_inputs.items
          /\ \A s \in StagesOf("store_chunk") :
                /\ KeysOf(s) = origin.iter_chunks.items
                /\ DOMAIN st[s] = DOMAIN origin.iter_chunks.items
          /\ cache \subseteq Range(origin.iter_inputs.items)
          /\ target.chunks \subseteq Range(origin.iter_chunks.items)
    /\ run = "done" =>
          /\ StagesOf("cache_input") # {} => cache = Range(origin.iter_inputs.items)
          /\ target.chunks = Range(origin.iter_chunks.items)

\* C12 witness: a plan was translated with the chunks [a, b]; while it ran,
\* iter_chunks() came to return nothing and iter_inputs() to fail; the run
\* completed having stored a and b.
C12_Witness ==
    /\ run = "done"
    /\ origin.iter_chunks.items = <<"a", "b">>
    /\ recipe.iter_chunks.items = <<>>
    /\ target.chunks = {"a", "b"}

\* The same for the inputs: the recipe's iter_inputs() now fails, the run
\* cached what it returned at translation.
C12_WitnessInputs ==
    /\ run = "done"
    /\ origin.cache_inputs = "True"
    /\ origin.iter_inputs.items = <<"b", "a">>
    /\ recipe.iter_inputs.raises
    /\ cache = {"a", "b"}

\* Some cache_input invocation stands failed: it raised and has not been
\* scheduled again.
CacheInputDown ==
    \E s \in StagesOf("cache_input") : \E i \in DOMAIN st[s] : st[s][i] = "failed"

\* prepare_target starts only after every cache_input invocation has returned
\* successfully.
PrepareAfterCaching ==
    run # "none" =>
        \A s \in StagesOf("prepare_target") :
            Started(s) => \A t \in StagesOf("cache_input") : StageDone(t)

C14_EmptyInputsStage ==
    /\ (Outcome(last) = "returned" /\ recipe.cache_inputs = "True"
          /\ recipe.iter_inputs.items = <<>>) =>
          /\ Len(last.value) = 1
          /\ Len(last.value[1]) = 4
          /\ last.value[1][1] =
                [function |-> "cache_input",
                 mappable |-> [is_none |-> FALSE, items |-> <<>>]]
    /\ (run # "none" /\ recipe.cache_inputs = "True"
          /\ recipe.iter_inputs.items = <<>>) =>
          /\ Len(plan) = 4
          /\ plan[1].function = "cache_input"
          /\ st[1] = <<>>
          /\ StageDone(1)
          /\ invoked["cache_input"] = 0
          /\ plan[2].function = "prepare_target"
          /\ (run = "active" /\ st[2][1] = "pending") => ENABLED Invoke(2, 1)
          /\ run = "done" =>
                /\ invoked["prepare_target"] = 1
                /\ invoked["finalize_target"] = 1
                /\ NonPending("store_chunk") = Len(recipe.iter_chunks.items)

\* C14 witness: a run of a caching recipe with no inputs and two chunks
\* completed without a cache_input invocation.
C14_Witness ==
    /\ run = "done"
    /\ recipe.cache_inputs = "True"
    /\ recipe.iter_inputs.items = <<>>
    /\ recipe.iter_chunks.items = <<"a", "b">>
    /\ invoked["cache_input"] = 0
    /\ target.finalized

\* The calls a stage stands for, in the order of its list.
StageCalls(stage) ==
    IF stage.mappable.is_none THEN <<Call(stage.function, "-")>>
    ELSE ForEach(stage.function, stage.mappable.items)

\* The calls of a pipeline run one at a time, stage after stage and, within a
\* stage, in the order of its list.
RECURSIVE SequentialCalls(_)
SequentialCalls(pl) ==
    IF pl = <<>> THEN <<>> ELSE StageCalls(Head(pl)) \o SequentialCalls(Tail(pl))

NotCacheInput(c) == c.function # "cache_input"

\* Invocation (t, j) comes before invocation (s, i) in that order.
Precedes(t, j, s, i) == t < s \/ (t = s /\ j < i)

\* The run has gone one call at a time so far and (s, i) is its next call:
\* every invocation before it has returned, no other has begun.
SequentialUpTo(s, i) ==
    \A t \in DOMAIN st : \A j \in DOMAIN st[t] :
        IF Precedes(t, j, s, i) THEN st[t][j] = "done"
        ELSE (t = s /\ j = i) \/ st[t][j] = "pending"

\* C15: the manual execution of the module header, one call after another, is
\* an execution the plan allows: for a recipe with cache_inputs True the
\* plan's calls taken in order are the manual ones, for the other recipes
\* they are the manual ones without the cache_input calls; and a run that
\* has gone one call at a time can always make its next call and see it
\* return before any other begins.
C15_ManualExecutionAllowed ==
    /\ (Outcome(last) = "returned" /\ ~recipe.iter_inputs.raises) =>
          \A p \in DOMAIN last.value :
              SequentialCalls(last.value[p]) =
                  IF recipe.cache_inputs = "True" THEN ManualExecution(recipe)
                  ELSE SelectSeq(ManualExecution(recipe), NotCacheInput)
    /\ run = "active" =>
          \A s \in DOMAIN st : \A i \in DOMAIN st[s] :
              SequentialUpTo(s, i) =>
                  /\ st[s][i] = "pending" => ENABLED Invoke(s, i)
                  /\ st[s][i] = "running" => ENABLED Returns(s, i)

\* C15 witness: a run of a caching recipe over the inputs [a, b] and the
\* chunks [b, a] has made its first four calls one at a time and is in the
\* fifth, store_chunk(a).
C15_Witness ==
    /\ run = "active"
    /\ recipe.cache_inputs = "True"
    /\ recipe.iter_inputs.items = <<"a", "b">>
    /\ recipe.iter_chunks.items = <<"b", "a">>
    /\ SequentialUpTo(3, 2)
    /\ st[3][2] = "running"
    /\ retries = 0
    /\ failed = {}

\* What to_pipelines may do to the recipe: read the flag, obtain the four
\* callables, call the two enumerations.
ReadOnlyEvents ==
    {"getattr cache_inputs", "get cache_input", "call iter_inputs",
     "get prepare_target", "get store_chunk", "call iter_chunks",
     "get finalize_target"}

\* C16: a call of to_pipelines, whether it returns or raises and whatever a
\* run has done or is doing meanwhile, leaves the number of invocations of
\* each of the four work functions, the cache and the target as they were;
\* all it does is read the flag, obtain the callables and call the
\* enumerations.
C16_TranslationInvokesNothing ==
    [][ToPipelines =>
          /\ invoked' = invoked
          /\ cache' = cache
          /\ target' = target
          /\ \A n \in DOMAIN last'.trace : last'.trace[n] \in ReadOnlyEvents
          /\ \A f \in WorkFunctions : CallsOf(last'.trace, f) = 0]_vars

\* C16 witness: to_pipelines has returned a plan and a run of it is over, the
\* counts being those of the run alone: two cache_input, one prepare_target,
\* two store_chunk, one finalize_target.
C16_Witness ==
    /\ Outcome(last) = "returned"
    /\ Mentions(last.trace, "call iter_inputs")
    /\ run = "done"
    /\ retries = 0
    /\ invoked = [f \in WorkFunctions |->
                     IF f \in {"cache_input", "store_chunk"} THEN 2 ELSE 1]
    /\ target.finalized

\* Position of the first entry `event` in a trace that has one.
FirstAt(trace, event) ==
    CHOOSE n \in DOMAIN trace :
        /\ trace[n] = event
        /\ \A m \in 1..(n - 1) : trace[m] # event

\* C17: one call of to_pipelines calls iter_inputs() once if cache_inputs is
\* True and not at all otherwise, and calls iter_chunks() once, after
\* iter_inputs(); except that when iter_inputs() raises, iter_chunks() is not
\* called and the call raises instead of returning a plan.
C17_EnumerationCalls ==
    Outcome(last) # "none" =>
        /\ CallsOf(last.trace, "iter_inputs") =
               (IF recipe.cache_inputs = "True" THEN 1 ELSE 0)
        /\ IF recipe.cache_inputs = "True" /\ recipe.iter_inputs.raises
           THEN /\ CallsOf(last.trace, "iter_chunks") = 0
                /\ Outcome(last) = "raised"
                /\ last.value = <<>>
           ELSE /\ CallsOf(last.trace, "iter_chunks") = 1
                /\ CallsOf(last.trace, "iter_inputs") = 1 =>
                       FirstAt(last.trace, "call iter_inputs")
                           < FirstAt(last.trace, "call iter_chunks")

\* C17 witness: the call on a caching recipe whose iter_inputs() raises has
\* raised after calling iter_inputs(), iter_chunks() (which would have
\* returned keys) not called.
C17_Witness ==
    /\ Outcome(last) = "raised"
    /\ recipe.cache_inputs = "True"
    /\ recipe.iter_inputs.raises
    /\ ~recipe.iter_chunks.raises
    /\ Mentions(last.trace, "call iter_inputs")
    /\ ~Mentions(last.trace, "call iter_chunks")

\* C17, the other case reached: both enumerations called, a plan returned.
C17_WitnessBoth ==
    /\ Outcome(last) = "returned"
    /\ CallsOf(last.trace, "iter_inputs") = 1
    /\ CallsOf(last.trace, "iter_chunks") = 1

\* Every position of the running plan has been invoked once and has returned:
\* each work function has as many invocations as its stages have positions,
\* one per key of a list and one for a stage without a list.
EachPositionOnce ==
    /\ \A s \in DOMAIN st :
          /\ Len(st[s]) = Tasks(plan[s])
          /\ \A i \in DOMAIN st[s] : st[s][i] = "done"
    /\ \A f \in WorkFunctions :
          /\ invoked[f] = NonPending(f)
          /\ f \in {"prepare_target", "finalize_target"} => invoked[f] = 1
    /\ invoked["store_chunk"] = Len(origin.iter_chunks.items)
    /\ invoked["cache_input"] =
           (IF origin.cache_inputs = "True" THEN Len(origin.iter_inputs.items) ELSE 0)

\* finalize_target begins, and so returns, only when every other invocation
\* of the plan has returned.
FinalizeLast ==
    run # "none" =>
        \A s \in StagesOf("finalize_target") :
            Started(s) =>
                \A t \in DOMAIN st : t # s => StageDone(t)

\* C18: with a fair executor and work functions that all return, every run
\* of a plan to_pipelines returned is eventually complete, whatever the
\* lengths of its key lists, zero included; the complete run has invoked
\* each key position and each singleton stage exactly once, and
\* finalize_target was the last invocation to return.
C18_FairRunCompletes ==
    /\ (run = "active") ~> (run = "done")
    /\ [](run = "done" => EachPositionOnce /\ target.finalized)
    /\ []FinalizeLast

\* C18 witness: the run of a caching recipe with two inputs and no chunk is
\* complete: two cache_input invocations, one prepare_target, no
\* store_chunk, one finalize_target.
C18_Witness ==
    /\ run = "done"
    /\ recipe.cache_inputs = "True"
    /\ recipe.iter_inputs.items = <<"a", "b">>
    /\ recipe.iter_chunks.items = <<>>
    /\ invoked = [f \in WorkFunctions |->
                     IF f = "cache_input" THEN 2
                     ELSE IF f = "store_chunk" THEN 0 ELSE 1]
    /\ target.finalized

====
